---- MODULE Spec2Model ----
(***************************************************************************)
(* A model of Pyriod (src/Pyriod/Pyriod.py): the signal table              *)
(* (self.values), the displayed table (self.signals_qgrid.df), the model   *)
(* and residual time series and their periodograms, and the operations     *)
(* that change them: add_signal, add_combination, _add_staged_signal,      *)
(* fit_model, the manual table edit, delete_rows and _delete_selected.     *)
(*                                                                         *)
(* Numbers.  Frequencies are whole numbers of the frequency unit, and a    *)
(* row says whether its frequency is held as a Python int or as a float.   *)
(* Amplitudes and fluxes are fixed-point numbers, one unit being 0.001.    *)
(* Phases and cycle counts are counted in quarters of a cycle, times in    *)
(* quarters of the time unit, so that the sinusoid of the program is exact *)
(* at every sample.  Strings are sequences of one-character strings.      *)
(***************************************************************************)
EXTENDS Integers, Sequences, FiniteSets, TLC

(***************************************************************************)
(* Bounds of the model.                                                    *)
(***************************************************************************)
MaxRows == 3
MaxSteps == 4
MaxSelected == 2
\* the largest numerator and denominator of a value of an expression
MaxNumber == 16384

(***************************************************************************)
(* Program constants.                                                      *)
(***************************************************************************)
amp_conversion == 1000
freq_conversion == 1
oversample_factor == 1
Quarter == 4

\* F applied to the value of x, x being evaluated once
Bind(x, F(_)) == CHOOSE y \in {F(v) : v \in {x}} : TRUE

NaN == <<>>
Num(v) == <<v>>

(***************************************************************************)
(* Strings.                                                                *)
(***************************************************************************)
Digits == <<"0", "1", "2", "3", "4", "5", "6", "7", "8", "9">>
Ascii == <<" ", "*", "+", "-", ".", "/", "0", "1", "2", "3", "4", "5", "6",
           "7", "8", "9", "c", "e", "f", "q", "r", "x">>

IsDigit(c) == \E i \in 1..Len(Digits) : Digits[i] = c
IsAlpha(c) == c \in {"c", "e", "f", "q", "r", "x"}
IsOperator(c) == c \in {"+", "-", "*", "/"}

DigitVal(c) == (CHOOSE i \in 1..Len(Digits) : Digits[i] = c) - 1
CharOrd(c) == CHOOSE i \in 1..Len(Ascii) : Ascii[i] = c

\* s < t in the order Python (and pandas) sort strings by
RECURSIVE StrLess(_, _)
StrLess(s, t) ==
    IF t = <<>> THEN FALSE
    ELSE IF s = <<>> THEN TRUE
    ELSE IF Head(s) = Head(t) THEN StrLess(Tail(s), Tail(t))
    ELSE CharOrd(Head(s)) < CharOrd(Head(t))

\* str.isdigit(): not empty and every character a digit
isdigit(s) == s # <<>> /\ \A i \in 1..Len(s) : IsDigit(s[i])

RECURSIVE DigitsToInt(_)
DigitsToInt(s) ==
    IF s = <<>> THEN 0
    ELSE 10 * DigitsToInt(SubSeq(s, 1, Len(s) - 1)) + DigitVal(s[Len(s)])

RECURSIVE NatToDigits(_)
NatToDigits(n) ==
    IF n < 10 THEN <<Digits[n + 1]>>
    ELSE NatToDigits(n \div 10) \o <<Digits[(n % 10) + 1]>>

\* str(x) of a Python int: "3", "-1"
IntStr(n) == IF n < 0 THEN <<"-">> \o NatToDigits(-n) ELSE NatToDigits(n)

\* str(x) of a Python float holding a whole number: "3.0", "-1.0"
Str(n) == IntStr(n) \o <<".", "0">>

StartsWithAt(s, i, old) ==
    /\ i + Len(old) - 1 <= Len(s)
    /\ SubSeq(s, i, i + Len(old) - 1) = old

\* s.replace(old, new): every non-overlapping occurrence, left to right; the
\* empty text occurs before every character and at the end
RECURSIVE ReplaceFrom(_, _, _, _)
ReplaceFrom(s, i, old, new) ==
    IF old = <<>>
    THEN (IF i > Len(s) THEN new ELSE new \o <<s[i]>> \o ReplaceFrom(s, i + 1, old, new))
    ELSE IF i > Len(s) THEN <<>>
    ELSE IF StartsWithAt(s, i, old)
         THEN new \o ReplaceFrom(s, i + Len(old), old, new)
         ELSE <<s[i]>> \o ReplaceFrom(s, i + 1, old, new)

Replace(s, old, new) == ReplaceFrom(s, 1, old, new)

\* s.replace(old, new, 1): the first occurrence only
RECURSIVE ReplaceFirstFrom(_, _, _, _)
ReplaceFirstFrom(s, i, old, new) ==
    IF i > Len(s) THEN <<>>
    ELSE IF StartsWithAt(s, i, old)
         THEN new \o SubSeq(s, i + Len(old), Len(s))
         ELSE <<s[i]>> \o ReplaceFirstFrom(s, i + 1, old, new)

ReplaceFirst(s, old, new) == ReplaceFirstFrom(s, 1, old, new)

\* re.split('\+|\-|\*|\/', s): the pieces between the operator characters
RECURSIVE SplitFrom(_, _, _)
SplitFrom(s, i, cur) ==
    IF i > Len(s) THEN <<cur>>
    ELSE IF IsOperator(s[i]) THEN <<cur>> \o SplitFrom(s, i + 1, <<>>)
    ELSE SplitFrom(s, i + 1, Append(cur, s[i]))

Split(s) == SplitFrom(s, 1, <<>>)

SeqToSet(q) == {q[i] : i \in 1..Len(q)}

(***************************************************************************)
(* Python's eval() of an arithmetic expression written in the characters   *)
(* of Ascii: decimal, exponent and hexadecimal numbers, names, the binary  *)
(* operators + - * / // **, the unary signs, and spaces between them.      *)
(* While it computes, a value is a fraction n/d and its type, f for a      *)
(* float and not f for an int.  Floats are binary: a                       *)
(* fraction whose d is a power of two is a float that Python holds and     *)
(* computes with exactly; any other is rounded by Python, and the model    *)
(* does not follow the rounding: such a value, one beyond MaxNumber and a  *)
(* complex one are values the model does not hold (Unheld), and so is      *)
(* every value computed from one.  A result is a record: k = "ok" with the *)
(* value v, k = "raise" where Python raises (SyntaxError, NameError,       *)
(* AttributeError, ZeroDivisionError, TypeError), k = "object" where the   *)
(* value is no number, and k = "inexact" where the model does not say what *)
(* Python gives: the end value is not held or is not a whole number.  p is *)
(* the position after the text read so far, and int says of the value of   *)
(* eval that it is an int.  env is the scope: the names                    *)
(* that stand for whole values, and the names that stand for an object     *)
(* that is no number (a module, a builtin function), with which every      *)
(* operator raises TypeError; a name that is not in scope raises.          *)
(***************************************************************************)
Ok(v, p) == [k |-> "ok", v |-> v, p |-> p, int |-> FALSE]
Raise == [k |-> "raise", v |-> 0, p |-> 0, int |-> FALSE]
Inexact == [k |-> "inexact", v |-> 0, p |-> 0, int |-> FALSE]
NoNumber == [k |-> "object", v |-> 0, p |-> 0, int |-> FALSE]

Abs(n) == IF n < 0 THEN -n ELSE n

RECURSIVE Gcd(_, _)
Gcd(a, b) == IF b = 0 THEN a ELSE Gcd(b, a % b)

RECURSIVE IsPowerOfTwo(_)
IsPowerOfTwo(d) == d = 1 \/ (d > 1 /\ d % 2 = 0 /\ IsPowerOfTwo(d \div 2))

Unheld == [n |-> 0, d |-> 0, f |-> TRUE]
Held(a) == a.d # 0

\* the value of a name that stands for an object that is no number
AnObject == [n |-> 1, d |-> 0, f |-> FALSE]

\* a scope: the names of numbers with their values, and the names of objects
Scope(numbers, objects) == [numbers |-> numbers, objects |-> objects]
Names(numbers) == Scope(numbers, {})

\* the number n/d, d not 0, of type float (f) or int, in lowest terms, when
\* the model holds it
Number(n, d, f, p) ==
    LET g == Gcd(Abs(n), Abs(d))
        nn == ((IF d < 0 THEN -n ELSE n)) \div g
        dd == Abs(d) \div g
    IN  IF Abs(nn) > MaxNumber \/ dd > MaxNumber \/ ~IsPowerOfTwo(dd) THEN Ok(Unheld, p)
        ELSE Ok([n |-> nn, d |-> dd, f |-> f], p)

Float(n, d, p) == Number(n, d, TRUE, p)

\* the int of the same value: a number written in digits alone
Whole(r) == IF r.k = "ok" /\ Held(r.v) THEN Ok([r.v EXCEPT !.f = FALSE], r.p) ELSE r

At(s, i) == IF i >= 1 /\ i <= Len(s) THEN s[i] ELSE ""

RECURSIVE SkipSpaces(_, _)
SkipSpaces(s, i) == IF At(s, i) = " " THEN SkipSpaces(s, i + 1) ELSE i

RECURSIVE ScanDigits(_, _)
ScanDigits(s, i) == IF IsDigit(At(s, i)) THEN ScanDigits(s, i + 1) ELSE i

IsHexDigit(c) == IsDigit(c) \/ c \in {"c", "e", "f"}
HexVal(c) == CASE c = "c" -> 12 [] c = "e" -> 14 [] c = "f" -> 15 [] OTHER -> DigitVal(c)

RECURSIVE ScanHex(_, _)
ScanHex(s, i) == IF IsHexDigit(At(s, i)) THEN ScanHex(s, i + 1) ELSE i

RECURSIVE ScanName(_, _)
ScanName(s, i) ==
    IF i <= Len(s) /\ (IsDigit(s[i]) \/ IsAlpha(s[i])) THEN ScanName(s, i + 1) ELSE i

RECURSIVE StripZeros(_)
StripZeros(q) == IF q # <<>> /\ Head(q) = "0" THEN StripZeros(Tail(q)) ELSE q

RECURSIVE StripZerosAtEnd(_)
StripZerosAtEnd(q) ==
    IF q # <<>> /\ q[Len(q)] = "0" THEN StripZerosAtEnd(SubSeq(q, 1, Len(q) - 1)) ELSE q

RECURSIVE HexToInt(_)
HexToInt(q) ==
    IF q = <<>> THEN 0 ELSE 16 * HexToInt(SubSeq(q, 1, Len(q) - 1)) + HexVal(q[Len(q)])

\* v * 10^k, k >= 0
RECURSIVE ScaleUp(_, _, _)
ScaleUp(v, k, p) ==
    IF k = 0 \/ v > MaxNumber THEN Float(v, 1, p) ELSE ScaleUp(10 * v, k - 1, p)

\* (n/d) / 10^k, k >= 0
RECURSIVE ScaleDown(_, _, _, _)
ScaleDown(n, d, k, p) ==
    IF k = 0 THEN Float(n, d, p)
    ELSE Bind(Float(n, 10 * d, p), LAMBDA r :
            IF ~Held(r.v) THEN r ELSE ScaleDown(r.v.n, r.v.d, k - 1, p))

\* the value of the decimal number with the digits whole before the point,
\* frac after it and the exponent sign, exp
DecimalValue(whole, frac, sign, exp, p) ==
    LET mant == StripZeros(whole \o StripZerosAtEnd(frac))
        e == StripZeros(exp)
    IN  IF mant = <<>> THEN Float(0, 1, p)
        ELSE IF Len(mant) > 5 \/ Len(e) > 3 THEN Ok(Unheld, p)
        ELSE LET k == sign * DigitsToInt(e) - Len(StripZerosAtEnd(frac))
             IN  IF k >= 0 THEN ScaleUp(DigitsToInt(mant), k, p)
                 ELSE ScaleDown(DigitsToInt(mant), 1, -k, p)

\* a hexadecimal number: 0x and its digits from i + 2 on
ParseHex(s, i) ==
    Bind(ScanHex(s, i + 2), LAMBDA j :
        IF j = i + 2 \/ IsAlpha(At(s, j)) THEN Raise
        ELSE Bind(StripZeros(SubSeq(s, i + 2, j - 1)), LAMBDA q :
                IF Len(q) > 4 THEN Ok(Unheld, j) ELSE Number(HexToInt(q), 1, FALSE, j)))

\* a decimal number: digits, a point and digits, an exponent; a whole number
\* written with a zero before other digits is a SyntaxError; without a point
\* and an exponent it is an int
ParseDecimal(s, i) ==
    LET a == ScanDigits(s, i)
        b == IF At(s, a) = "." THEN ScanDigits(s, a + 1) ELSE a
        whole == SubSeq(s, i, a - 1)
        frac == SubSeq(s, a + 1, b - 1)
        signed == At(s, b) = "e" /\ At(s, b + 1) \in {"+", "-"}
        c0 == IF At(s, b) = "e" THEN (IF signed THEN b + 2 ELSE b + 1) ELSE b
        c == ScanDigits(s, c0)
        exp == SubSeq(s, c0, c - 1)
        sign == IF signed /\ At(s, b + 1) = "-" THEN -1 ELSE 1
    IN  IF whole \o frac = <<>> THEN Raise
        ELSE IF At(s, b) = "e" /\ c = c0 THEN Raise
        ELSE IF IsAlpha(At(s, c)) THEN Raise
        ELSE IF a = b /\ c = b /\ Len(whole) > 1 /\ Head(whole) = "0"
                /\ StripZeros(whole) # <<>> THEN Raise
        ELSE IF a = b /\ c = b THEN Whole(DecimalValue(whole, frac, sign, exp, c))
        ELSE DecimalValue(whole, frac, sign, exp, c)

ParseNumber(s, i) ==
    IF At(s, i) = "0" /\ At(s, i + 1) = "x" THEN ParseHex(s, i) ELSE ParseDecimal(s, i)

ParseName(s, i, env) ==
    Bind(ScanName(s, i), LAMBDA j :
        IF SubSeq(s, i, j - 1) \in DOMAIN env.numbers
        THEN Float(env.numbers[SubSeq(s, i, j - 1)], 1, j)
        ELSE IF SubSeq(s, i, j - 1) \in env.objects THEN Ok(AnObject, j)
        ELSE Raise)

\* +r and -r
Signed(r) == IF r.k = "ok" /\ r.v = AnObject THEN Raise ELSE r
Negated(r) ==
    IF r.k = "ok" /\ r.v = AnObject THEN Raise
    ELSE IF r.k = "ok" /\ Held(r.v) THEN Ok([r.v EXCEPT !.n = -r.v.n], r.p) ELSE r

\* a + b, a - b, a * b: an int of two ints, else a float
Plus(a, b, p) ==
    IF AnObject \in {a, b} THEN Raise
    ELSE IF ~Held(a) \/ ~Held(b) THEN Ok(Unheld, p)
    ELSE Number(a.n * b.d + b.n * a.d, a.d * b.d, a.f \/ b.f, p)
Minus(a, b, p) ==
    IF AnObject \in {a, b} THEN Raise
    ELSE IF ~Held(a) \/ ~Held(b) THEN Ok(Unheld, p)
    ELSE Number(a.n * b.d - b.n * a.d, a.d * b.d, a.f \/ b.f, p)
Times(a, b, p) ==
    IF AnObject \in {a, b} THEN Raise
    ELSE IF ~Held(a) \/ ~Held(b) THEN Ok(Unheld, p)
    ELSE Number(a.n * b.n, a.d * b.d, a.f \/ b.f, p)

\* a / b: a float
Divide(a, b, p) ==
    IF AnObject \in {a, b} THEN Raise
    ELSE IF Held(b) /\ b.n = 0 THEN Raise
    ELSE IF ~Held(a) \/ ~Held(b) THEN Ok(Unheld, p)
    ELSE Float(a.n * b.d, a.d * b.n, p)

\* a // b: the quotient rounded down, an int of two ints, else a float
FloorDivide(a, b, p) ==
    IF AnObject \in {a, b} THEN Raise
    ELSE IF Held(b) /\ b.n = 0 THEN Raise
    ELSE IF ~Held(a) \/ ~Held(b) THEN Ok(Unheld, p)
    ELSE LET num == (IF b.n < 0 THEN -1 ELSE 1) * a.n * b.d
             den == a.d * Abs(b.n)
         IN  Number(num \div den, 1, a.f \/ b.f, p)

\* acc * a^k, k >= 0, given up as soon as a value is beyond the model's
RECURSIVE PowerUp(_, _, _, _)
PowerUp(acc, a, k, p) ==
    IF k = 0 \/ ~Held(acc.v) THEN acc
    ELSE IF Abs(a.n) <= 1 /\ a.d = 1
         THEN (IF a.n = -1 /\ k % 2 = 1 THEN Times(acc.v, a, p)
               ELSE IF a.n = 0 THEN Number(0, 1, acc.v.f \/ a.f, p) ELSE acc)
    ELSE PowerUp(Times(acc.v, a, p), a, k - 1, p)

\* the square root of a whole number, when it is one
Root(n) ==
    IF \E r \in 0..128 : r * r = n THEN Num(CHOOSE r \in 0..128 : r * r = n) ELSE NaN

\* a ** (1/d), d a power of two, a >= 0
RECURSIVE RootOf(_, _, _)
RootOf(a, d, p) ==
    IF d = 1 THEN Ok(a, p)
    ELSE IF Root(a.n) = NaN \/ Root(a.d) = NaN THEN Ok(Unheld, p)
    ELSE RootOf([n |-> Root(a.n)[1], d |-> Root(a.d)[1], f |-> TRUE], d \div 2, p)

\* a ** b: an int of two ints when b is not negative, else a float
Power(a, b, p) ==
    IF AnObject \in {a, b} THEN Raise
    ELSE IF Held(a) /\ Held(b) /\ a.n = 0 /\ b.n < 0 THEN Raise
    ELSE IF ~Held(a) \/ ~Held(b) THEN Ok(Unheld, p)
    ELSE IF b.d # 1 /\ a.n < 0 THEN Ok(Unheld, p)
    ELSE Bind(RootOf(a, b.d, p), LAMBDA r :
            IF ~Held(r.v) THEN r
            ELSE IF b.n >= 0 THEN PowerUp(Number(1, 1, a.f \/ b.f, p), r.v, b.n, p)
            ELSE PowerUp(Float(1, 1, p), [n |-> r.v.d, d |-> r.v.n, f |-> TRUE], -b.n, p))

\* the result with the spaces after it read
Spaced(s, r) == IF r.k = "ok" THEN Ok(r.v, SkipSpaces(s, r.p)) ELSE r

\* a number, a name, or the three points of Ellipsis, which is no number
ParseAtom(s, i, env) ==
    IF At(s, i) = "." /\ At(s, i + 1) = "." /\ At(s, i + 2) = "."
    THEN Spaced(s, Ok(AnObject, i + 3))
    ELSE IF IsDigit(At(s, i)) \/ At(s, i) = "." THEN Spaced(s, ParseNumber(s, i))
    ELSE IF IsAlpha(At(s, i)) THEN Spaced(s, ParseName(s, i, env))
    ELSE Raise

\* a sign and a factor, or an atom and ** and a factor
RECURSIVE ParseFactor(_, _, _)
ParseFactor(s, i0, env) ==
    Bind(SkipSpaces(s, i0), LAMBDA i :
        IF At(s, i) = "+" THEN Bind(ParseFactor(s, i + 1, env), Signed)
        ELSE IF At(s, i) = "-" THEN Bind(ParseFactor(s, i + 1, env), Negated)
        ELSE Bind(ParseAtom(s, i, env), LAMBDA a :
                IF a.k # "ok" \/ At(s, a.p) # "*" \/ At(s, a.p + 1) # "*" THEN a
                ELSE Bind(ParseFactor(s, a.p + 2, env), LAMBDA r :
                        IF r.k # "ok" THEN r ELSE Spaced(s, Power(a.v, r.v, r.p)))))

RECURSIVE ParseTermRest(_, _, _)
ParseTermRest(s, acc, env) ==
    Bind(acc, LAMBDA a :
        IF a.k # "ok" \/ At(s, a.p) \notin {"*", "/"} THEN a
        ELSE IF At(s, a.p) = "/" /\ At(s, a.p + 1) = "/"
        THEN Bind(ParseFactor(s, a.p + 2, env), LAMBDA r :
                IF r.k # "ok" THEN r
                ELSE ParseTermRest(s, FloorDivide(a.v, r.v, r.p), env))
        ELSE Bind(ParseFactor(s, a.p + 1, env), LAMBDA r :
                IF r.k # "ok" THEN r
                ELSE IF s[a.p] = "*" THEN ParseTermRest(s, Times(a.v, r.v, r.p), env)
                ELSE ParseTermRest(s, Divide(a.v, r.v, r.p), env)))

ParseTerm(s, i, env) == ParseTermRest(s, ParseFactor(s, i, env), env)

RECURSIVE ParseExprRest(_, _, _)
ParseExprRest(s, acc, env) ==
    Bind(acc, LAMBDA a :
        IF a.k # "ok" \/ At(s, a.p) \notin {"+", "-"} THEN a
        ELSE Bind(ParseTerm(s, a.p + 1, env), LAMBDA r :
                IF r.k # "ok" THEN r
                ELSE IF s[a.p] = "+" THEN ParseExprRest(s, Plus(a.v, r.v, r.p), env)
                ELSE ParseExprRest(s, Minus(a.v, r.v, r.p), env)))

\* the names eval(expression) of add_combination sees that can be written in
\* the characters of Ascii: of the module's globals re (import re), of the
\* builtins exec; the local names of add_combination are not among them
Globals == Scope(<<>>, {<<"r", "e">>, <<"e", "x", "e", "c">>})

Eval(s, env) ==
    Bind(ParseExprRest(s, ParseTerm(s, 1, env), env), LAMBDA r :
        IF r.k # "ok" THEN r
        ELSE IF r.p # Len(s) + 1 THEN Raise
        ELSE IF r.v = AnObject THEN NoNumber
        ELSE IF r.v.d # 1 THEN Inexact
        ELSE [Ok(r.v.n, r.p) EXCEPT !.int = ~r.v.f])

(***************************************************************************)
(* float(text) of a text that is digits with at most one point.            *)
(***************************************************************************)
DotsOf(lit) == {i \in 1..Len(lit) : lit[i] = "."}

\* the value of "3", "3.0", "3.00", "03", "23.0"; not a whole number: inexact
LiteralValue(lit) ==
    LET dots == DotsOf(lit)
        d == IF dots = {} THEN Len(lit) + 1 ELSE CHOOSE i \in dots : TRUE
        whole == SubSeq(lit, 1, d - 1)
        frac == SubSeq(lit, d + 1, Len(lit))
    IN  IF Cardinality(dots) > 1 \/ whole \o frac = <<>> THEN Raise
        ELSE IF \E i \in 1..Len(frac) : frac[i] # "0" THEN Inexact
        ELSE Ok(DigitsToInt(whole), 0)

(***************************************************************************)
(* The time series given at construction, and what __init__ derives from   *)
(* it.  The series is 0.001 + 0.002 sin(2 pi t) sampled at t = 0, 1/4,     *)
(* ..., 1; times are counted in quarters of the time unit.                 *)
(***************************************************************************)
lc_orig_time == <<0, 1, 2, 3, 4>>
lc_orig_flux == <<1, 3, 1, -1, 1>>

Samples == 1..Len(lc_orig_time)

RECURSIVE SumSeq(_)
SumSeq(q) == IF q = <<>> THEN 0 ELSE Head(q) + SumSeq(Tail(q))

\* np.mean of a sequence whose mean is a whole number
Mean(q) == SumSeq(q) \div Len(q)

\* self.tshift = -np.mean(self.lc_orig.time), in quarters of the time unit
tshift == -Mean(lc_orig_time)

\* dt = np.median(np.diff(time)), in quarters of the time unit (even sampling)
dt == lc_orig_time[2] - lc_orig_time[1]

fres == Quarter \div (lc_orig_time[Len(lc_orig_time)] - lc_orig_time[1])
nyq == Quarter \div (2 * dt * freq_conversion)

\* self.freqs = np.arange(0, nyq + fres/oversample_factor, fres/oversample_factor)
freqs ==
    LET step == fres \div oversample_factor
    IN  [i \in 1..((nyq + step + step - 1) \div step) |-> (i - 1) * step]

(***************************************************************************)
(* The state.                                                              *)
(***************************************************************************)
VARIABLES
    values,             \* self.values, in the units of the time series
    qgrid_df,           \* self.signals_qgrid.df, the displayed table
    lc_model_observed,  \* self.lc_model_observed.flux
    lc_resid,           \* self.lc_resid.flux
    per_model,          \* self.per_model
    per_resid,          \* self.per_resid
    signal_markers,     \* the data of self.signal_markers
    last,               \* the last call made: what, how it ended, on which keys
    before,             \* the tables as add_signal found them, while it is the last call
    steps,              \* the number of calls made
    lc_orig,            \* self.lc_orig: time and flux
    per_orig,           \* self.per_orig: the power on the grid, and where it is NaN
    self_freqs,         \* self.freqs, the frequency grid
    tstype,             \* self._tstype.value: the series displayed
    lcplot_orig,        \* the y data of self.lcplot_orig
    press,              \* self._press
    move,               \* self._move
    thisfreq,           \* self._thisfreq.value
    thisamp,            \* self._thisamp.value
    marker,             \* the data of self.marker
    event,              \* the last event of the periodogram canvas and what it did
    events,             \* the events of the canvas since the last release
    flushing,           \* the calls of update_marker that are inside flush_events
    in_flight           \* for every caller, what its fit_model has read so far

vars == <<values, qgrid_df, lc_model_observed, lc_resid, per_model, per_resid,
          signal_markers, last, before, steps, lc_orig, per_orig, self_freqs,
          tstype, lcplot_orig, press, move, thisfreq, thisamp, marker, event,
          events, flushing, in_flight>>

\* what __init__ computes once
fixed == <<per_orig, self_freqs>>
\* what _update_lcs and _update_lc_display read and write of the series shown
shown == <<lc_orig, lcplot_orig>>
\* the widgets of the periodogram and the flags of its canvas
pointer == <<tstype, press, move, thisfreq, thisamp, marker, event, events, flushing>>
\* all that the operations on the table alone leave as it is
others == <<fixed, shown, pointer, in_flight>>

\* to_periodogram(normalization='amplitude', frequency=self.freqs): a function
\* of the series alone, on the fixed grid; the estimator centres the data, so
\* the periodogram is held as the grid and the centred series it is computed of
Periodogram(flux) ==
    [frequency |-> self_freqs,
     data |-> [i \in Samples |-> Len(flux) * flux[i] - SumSeq(flux)]]

\* the power of self.per_orig on self.freqs, times amp_conversion
per_orig_power == <<0, 2 * amp_conversion, 0>>

\* self.interpls = interp1d(self.freqs, self.per_orig.power.value), read at a
\* frequency of the grid
interpls(f) == per_orig_power[CHOOSE i \in DOMAIN freqs : freqs[i] = f]

\* pyquist.subfreq(freq, nyq)[0]: the frequency folded into [0, nyq]
subfreq(freq, nyquist) ==
    LET r == freq % (2 * nyquist)
    IN  IF r > nyquist THEN 2 * nyquist - r ELSE r

\* sin(2 pi q / 4) for a whole number q of quarter cycles
Sin4(q) == CASE q % Quarter = 0 -> 0
             [] q % Quarter = 1 -> 1
             [] q % Quarter = 2 -> 0
             [] q % Quarter = 3 -> -1

\* sin(x, freq, amp, phase) = amp*np.sin(2.*np.pi*(freq*x+phase))
sin(x, freq, amp, phase) == amp * Sin4(freq * x + phase)

(***************************************************************************)
(* Data frames: a sequence of rows, each with its index label (key).       *)
(***************************************************************************)
\* the column freq holds objects (dtypes): the number as it was given, an
\* int (intfreq) or a float
NewRow(key, freq, intfreq, fixfreq, amp, fixamp, phase, fixphase, include) ==
    [key |-> key, include |-> include,
     freq |-> freq, intfreq |-> intfreq, fixfreq |-> fixfreq, freqerr |-> NaN,
     amp |-> amp, fixamp |-> fixamp, amperr |-> NaN,
     phase |-> phase, fixphase |-> fixphase, phaseerr |-> NaN]

Index(df) == [i \in 1..Len(df) |-> df[i].key]
IndexSet(df) == {df[i].key : i \in 1..Len(df)}
RowsOf(df, key) == SelectSeq(df, LAMBDA r : r.key = key)
is_unique(df) == \A i, j \in 1..Len(df) : df[i].key = df[j].key => i = j

MapOpt(x, F(_)) == IF x = NaN THEN NaN ELSE Num(F(x[1]))
TimesConv(x) == x * amp_conversion
OverConv(x) == x \div amp_conversion

\* an amplitude error: m * amp_conversion^e, held as the mantissa and the
\* exponent, so that it is multiplied and divided by amp_conversion exactly
Scaled(m, e) == [m |-> m, e |-> IF m = 0 THEN 0 ELSE e]
TimesConvErr(x) == Scaled(x.m, x.e + 1)
OverConvErr(x) == Scaled(x.m, x.e - 1)

\* the sorted sequence of the labels of a set
RECURSIVE SortSet(_)
SortSet(S) ==
    Bind(S, LAMBDA T :
        IF T = {} THEN <<>>
        ELSE Bind(CHOOSE x \in T : \A y \in T \ {x} : StrLess(x, y),
                  LAMBDA m : <<m>> \o SortSet(T \ {m})))

\* one cell of combine_first: the caller's value unless it is NaN
Coalesce(x, y) == IF x = NaN THEN y ELSE x

CombineRow(l, r) ==
    [l EXCEPT !.freqerr = Coalesce(@, r.freqerr),
              !.amperr = Coalesce(@, r.amperr),
              !.phaseerr = Coalesce(@, r.phaseerr)]

RECURSIVE Flatten(_)
Flatten(qq) == IF qq = <<>> THEN <<>> ELSE Head(qq) \o Flatten(Tail(qq))

\* the rows an outer join of the two indexes gives for one label: every pair
\* of a left and a right row with it, or the rows of the side that has it
JoinRows(ls, rs) ==
    IF rs = <<>> THEN ls
    ELSE IF ls = <<>> THEN rs
    ELSE Flatten([i \in 1..Len(ls) |-> [j \in 1..Len(rs) |-> CombineRow(ls[i], rs[j])]])

\* left.combine_first(right): aligned row by row when the indexes are equal,
\* else on the sorted outer join of the indexes
combine_first(left, right) ==
    IF Index(left) = Index(right)
    THEN [i \in 1..Len(left) |-> CombineRow(left[i], right[i])]
    ELSE LET labels == SortSet(IndexSet(left) \cup IndexSet(right))
         IN  Flatten([n \in 1..Len(labels) |->
                        JoinRows(RowsOf(left, labels[n]), RowsOf(right, labels[n]))])

\* df.drop(indices)
drop(df, indices) == SelectSeq(df, LAMBDA r : r.key \notin indices)

\* _convert_values_to_qgrid
convert_values_to_qgrid(vals) ==
    [i \in 1..Len(vals) |->
        [vals[i] EXCEPT !.amp = TimesConv(@), !.amperr = MapOpt(@, TimesConvErr)]]

\* _convert_qgrid_to_values
convert_qgrid_to_values(df) ==
    [i \in 1..Len(df) |->
        [df[i] EXCEPT !.amp = OverConv(@), !.amperr = MapOpt(@, OverConvErr)]]

\* displayframe of add_signal: the amplitude converted, its error not
displayframe(vals) ==
    [i \in 1..Len(vals) |-> [vals[i] EXCEPT !.amp = TimesConv(@)]]

\* the model series _update_lcs builds from a table
RECURSIVE SumSines(_, _)
SumSines(vals, x) ==
    IF vals = <<>> THEN 0
    ELSE sin(x, Head(vals).freq * freq_conversion, Head(vals).amp, Head(vals).phase)
         + SumSines(Tail(vals), x)

\* the first row whose label stands on several rows, or none
first_repeated(vals) ==
    LET rep == {i \in 1..Len(vals) : Len(RowsOf(vals, vals[i].key)) > 1}
    IN  IF rep = {} THEN Len(vals) + 1 ELSE CHOOSE i \in rep : \A j \in rep : i <= j

\* self.lc_model_observed.flux as the loop of _update_lcs leaves it: the mean
\* and the sinusoids of the rows; at a label that stands on several rows
\* float(self.values.loc[prefix,'freq']) raises, the rows before it added
update_lcs_model(vals) ==
    [i \in Samples |->
        Mean(lc_orig.flux)
        + SumSines(SubSeq(vals, 1, first_repeated(vals) - 1), lc_orig.time[i])]

\* self.lc_orig - self.lc_model_observed
Resid(model) == [i \in Samples |-> lc_orig.flux[i] - model[i]]

\* the data _update_signal_markers gives the markers
markers_of(vals) ==
    [i \in 1..Len(vals) |-> <<subfreq(vals[i].freq, nyq), vals[i].amp * amp_conversion>>]

(***************************************************************************)
(* The periodogram canvas: onperiodogramclick and update_marker.  Places   *)
(* on the frequency axis are counted in halves of the frequency unit, and  *)
(* distances compared in hundredths of that, so that a place between two   *)
(* grid frequencies and 1% of a range are whole numbers.                   *)
(***************************************************************************)
Half == 2
Percent == 100

Max(a, b) == IF a >= b THEN a ELSE b

\* the place of grid frequency number i
place(i) == Half * self_freqs[i]

\* what np.max makes of a list of a number and an array of one number, as
\* [self.fres, 0.01*np.diff(xlim)] is: numpy from 1.24 on raises ValueError
\* for the ragged list, an older numpy takes the larger of the two
Numpys == {"raises", "older"}

\* tolerance = np.max([self.fres, 0.01*np.diff(self.perax.get_xlim())]) where
\* np.max returns, in hundredths of a half unit; width is the displayed range
\* in half units
tolerance(width) == Max(Percent * Half * fres, width)

\* nearby = np.argwhere((self.freqs >= xdata - tolerance) & (self.freqs <= xdata + tolerance))
nearby(xdata, width) ==
    {i \in DOMAIN self_freqs :
        /\ Percent * place(i) >= Percent * xdata - tolerance(width)
        /\ Percent * place(i) <= Percent * xdata + tolerance(width)}

\* np.nanargmax over the entries idx of power: the place, counted from 0 among
\* them, of the first of the largest values that are not NaN
nanargmax(power, nan, idx) ==
    LET best == CHOOSE i \in idx \ nan :
                    \A j \in idx \ nan : power[j] < power[i] \/ (power[j] = power[i] /\ i <= j)
    IN  Cardinality({j \in idx : j < best})

\* nearby[0]
first_of(idx) == CHOOSE i \in idx : \A j \in idx : i <= j

\* highestind = np.nanargmax(ydata[nearby]) + nearby[0]
highestind(power, nan, idx) == nanargmax(power, nan, idx) + first_of(idx)

\* the interval interp1d reads for a place: searchsorted, clipped to the grid
upper(xdata) ==
    Max(2, CHOOSE i \in DOMAIN self_freqs :
                /\ place(i) >= xdata
                /\ \A j \in DOMAIN self_freqs : place(j) >= xdata => i <= j)

\* self.interpls(xdata): linear between the two grid points, NaN when one is
interpolate(xdata) ==
    LET hi == upper(xdata)
        lo == hi - 1
    IN  IF {lo, hi} \cap per_orig.nan # {} THEN NaN
        ELSE Num(per_orig.power[lo]
                 + ((per_orig.power[hi] - per_orig.power[lo]) * (xdata - place(lo)))
                    \div (place(hi) - place(lo)))

in_grid(xdata) == place(1) <= xdata /\ xdata <= place(Len(self_freqs))

\* str(x) of a place: "1.0", "0.5"
str_place(xdata) ==
    NatToDigits(xdata \div Half) \o (IF xdata % Half = 0 THEN <<".", "0">> ELSE <<".", "5">>)

\* what update_marker(x, y) leaves in the widgets and the marker
update_marker(x, y) == [thisfreq |-> str_place(x), thisamp |-> y, marker |-> <<x, y>>]

\* onperiodogramclick(event): what it gives update_marker, or that it raises
\* (np.max of the ragged list, nanargmax of nothing or of NaN only, interp1d
\* out of its range)
onperiodogramclick(xdata, width, snaptopeak, numpy) ==
    IF snaptopeak
    THEN IF numpy = "raises" \/ nearby(xdata, width) \ per_orig.nan = {}
         THEN [res |-> "raise"]
         ELSE LET h == highestind(per_orig.power, per_orig.nan, nearby(xdata, width))
              IN  [res |-> "ok", to |-> update_marker(place(h), Num(per_orig.power[h]))]
    ELSE IF ~in_grid(xdata) THEN [res |-> "raise"]
         ELSE [res |-> "ok", to |-> update_marker(xdata, interpolate(xdata))]

\* the callers that may be inside fit_model at once
Callers == {"button", "call"}
NoFit == <<>>

\* the events of the canvas counted so far
Event(n, ev, clicked, res, xdata, width, snaptopeak) ==
    [n |-> n, ev |-> ev, clicked |-> clicked, res |-> res, xdata |-> xdata,
     width |-> width, snaptopeak |-> snaptopeak]

(***************************************************************************)
(* The history of the calls, and __init__.                                  *)
(***************************************************************************)
table == <<values, qgrid_df>>
derived == <<lc_model_observed, lc_resid, per_model, per_resid>>

Call(op, res, keys) == [op |-> op, res |-> res, keys |-> keys]
NoSnapshot == <<>>
Snapshot(key) == <<[values |-> values, qgrid_df |-> qgrid_df, key |-> key]>>

\* __init__: an empty table; the model is the mean of the flux
Init ==
    /\ lc_orig = [time |-> lc_orig_time, flux |-> lc_orig_flux]
    /\ self_freqs = freqs
    /\ per_orig = [power |-> per_orig_power, nan |-> {}]
    /\ values = <<>>
    /\ qgrid_df = <<>>
    /\ lc_model_observed = [i \in Samples |-> Mean(lc_orig_flux)]
    /\ lc_resid = Resid([i \in Samples |-> Mean(lc_orig_flux)])
    /\ per_model = Periodogram([i \in Samples |-> Mean(lc_orig_flux)])
    /\ per_resid = Periodogram(Resid([i \in Samples |-> Mean(lc_orig_flux)]))
    /\ signal_markers = <<>>
    /\ last = Call("__init__", "ok", {})
    /\ before = NoSnapshot
    /\ steps = 0
    /\ tstype = "Original"
    /\ lcplot_orig = lc_orig_flux
    /\ press = FALSE
    /\ move = FALSE
    /\ LET h == highestind(per_orig_power, {}, DOMAIN per_orig_power)
           to == update_marker(Half * freqs[h], Num(per_orig_power[h]))
       IN  /\ thisfreq = to.thisfreq
           /\ thisamp = to.thisamp
           /\ marker = to.marker
    /\ event = Event(0, "none", FALSE, "ok", 0, 0, FALSE)
    /\ events = <<>>
    /\ flushing = <<>>
    /\ in_flight = [c \in Callers |-> NoFit]

\* the periodograms of the series Pyriod may be given, on the grid: a peak in
\* the middle, a peak at the end with two equal values before it, a peak at
\* the beginning; and the grid frequencies where the estimator gives NaN
Powers ==
    { <<0, 2 * amp_conversion, 0>>,
      <<2 * amp_conversion, 2 * amp_conversion, 4 * amp_conversion>>,
      <<4 * amp_conversion, 0, 2 * amp_conversion>> }
NanSets == {{}, {1}, {1, 3}}

\* __init__ for any of these periodograms
InitClick ==
    /\ lc_orig = [time |-> lc_orig_time, flux |-> lc_orig_flux]
    /\ self_freqs = freqs
    /\ per_orig \in [power : Powers, nan : NanSets]
    /\ values = <<>>
    /\ qgrid_df = <<>>
    /\ lc_model_observed = [i \in Samples |-> Mean(lc_orig_flux)]
    /\ lc_resid = Resid([i \in Samples |-> Mean(lc_orig_flux)])
    /\ per_model = Periodogram([i \in Samples |-> Mean(lc_orig_flux)])
    /\ per_resid = Periodogram(Resid([i \in Samples |-> Mean(lc_orig_flux)]))
    /\ signal_markers = <<>>
    /\ last = Call("__init__", "ok", {})
    /\ before = NoSnapshot
    /\ steps = 0
    /\ tstype = "Original"
    /\ lcplot_orig = lc_orig_flux
    /\ press = FALSE
    /\ move = FALSE
    /\ LET h == highestind(per_orig.power, per_orig.nan, DOMAIN per_orig.power)
           to == update_marker(Half * freqs[h], Num(per_orig.power[h]))
       IN  /\ thisfreq = to.thisfreq
           /\ thisamp = to.thisamp
           /\ marker = to.marker
    /\ event = Event(0, "none", FALSE, "ok", 0, 0, FALSE)
    /\ events = <<>>
    /\ flushing = <<>>
    /\ in_flight = [c \in Callers |-> NoFit]

(***************************************************************************)
(* add_signal                                                              *)
(***************************************************************************)
None == <<"N", "o", "n", "e">>

\* amp = 1. and phase = 0.5 when not given
default_amp == 1 * amp_conversion
default_phase == Quarter \div 2

\* index = "f{}".format(len(self.values))
auto_index(vals) == <<"f">> \o NatToDigits(Len(vals))

index_of(vals, index) == IF index = None THEN auto_index(vals) ELSE index

\* self.values after add_signal(freq, amp, phase, index=index), freq an int
\* (intfreq) or a float
add_signal_values(vals, freq, intfreq, amp, phase, index) ==
    Append(vals, NewRow(index_of(vals, index), freq, intfreq, FALSE,
                        amp \div amp_conversion, FALSE, phase, FALSE, TRUE))

\* self.signals_qgrid.df after add_signal, vals being the new self.values
add_signal_qgrid(vals, df) == combine_first(displayframe(vals), df)

\* the frequencies add_signal is called with, the float -1.0 and the int 1
\* (the number, and whether it is an int), and the keys
AddFreqs == {<<-1, FALSE>>, <<1, TRUE>>}
AddKeys == {None, <<"f", "1">>}

AddSignalWith(keys) ==
    /\ steps < MaxSteps
    /\ Len(values) < MaxRows
    /\ \E freq \in AddFreqs, index \in keys :
        LET vals == add_signal_values(values, freq[1], freq[2], default_amp,
                                      default_phase, index)
        IN  /\ values' = vals
            /\ qgrid_df' = add_signal_qgrid(vals, qgrid_df)
            /\ signal_markers' = markers_of(vals)
            /\ last' = Call("add_signal", "ok", {index_of(values, index)})
            /\ before' = Snapshot(index_of(values, index))
    /\ steps' = steps + 1
    /\ UNCHANGED <<derived, others>>

\* add_signal(freq), with index=None or a key of the caller's
AddSignal == AddSignalWith(AddKeys)

\* the keys a caller gives: one that begins with another, one that is no
\* letter followed by digits, the empty one
KeyedKeys == {<<"f", "1">>, <<"f", "1", "0">>, <<"x">>, <<>>}

\* add_signal(freq, index=key)
AddSignalKeyed == AddSignalWith(KeyedKeys)

\* add_signal(freq) with the automatic key only
AddSignalAuto == AddSignalWith({None})

(***************************************************************************)
(* delete_rows and _delete_selected                                        *)
(***************************************************************************)
\* delete_rows(indices); drop raises KeyError for a label that is not there
DeleteRows ==
    /\ steps < MaxSteps
    /\ \E indices \in {{key} : key \in IndexSet(values)} :
        /\ values' = drop(values, indices)
        /\ qgrid_df' = drop(qgrid_df, indices)
        /\ last' = Call("delete_rows", "ok", indices)
    /\ before' = IF last.op = "add_signal" THEN before ELSE NoSnapshot
    /\ steps' = steps + 1
    /\ UNCHANGED <<derived, signal_markers, others>>

\* the "Delete selected" button: the rows selected in the displayed table,
\* none of them when nothing is selected, are dropped and the markers are
\* set to those of the rows left
DeleteSelected ==
    /\ steps < MaxSteps
    /\ \E indices \in SUBSET IndexSet(qgrid_df) :
        /\ Cardinality(indices) \in 0..MaxSelected
        /\ values' = drop(values, indices)
        /\ qgrid_df' = drop(qgrid_df, indices)
        /\ signal_markers' = markers_of(drop(values, indices))
        /\ last' = Call("_delete_selected", "ok", indices)
    /\ before' = IF last.op = "add_signal" THEN before ELSE NoSnapshot
    /\ steps' = steps + 1
    /\ UNCHANGED <<derived, others>>

(***************************************************************************)
(* add_combination                                                         *)
(***************************************************************************)
\* the orders in which a Python set of keys may be iterated
Orders(S) ==
    {q \in [1..Cardinality(S) -> S] : \A i, j \in 1..Cardinality(S) : q[i] = q[j] => i = j}

\* keys = set([part for part in parts if part in self.values.index])
keys_in(text, vals) == {part \in SeqToSet(Split(text)) : part \in IndexSet(vals)}

\* str(self.values.loc[key,'freq']): the number of the one row with the key;
\* with several rows it is the text of a Series, which is no expression
freq_text(vals, key) ==
    IF Len(RowsOf(vals, key)) # 1 THEN <<"f", " ", "f">>
    ELSE IF RowsOf(vals, key)[1].intfreq THEN IntStr(RowsOf(vals, key)[1].freq)
    ELSE Str(RowsOf(vals, key)[1].freq)

\* for key in keys: expression = expression.replace(key, str(freq of key))
RECURSIVE substitute_freqs(_, _, _)
substitute_freqs(expression, order, vals) ==
    IF order = <<>> THEN expression
    ELSE substitute_freqs(Replace(expression, Head(order), freq_text(vals, Head(order))),
                          Tail(order), vals)

strip_spaces(text) == Replace(text, <<" ">>, <<>>)

\* freqval = eval(expression), the keys replaced in the given order
combination_freqval(combostr, order, vals) ==
    Eval(substitute_freqs(strip_spaces(combostr), order, vals), Globals)

\* amp = self.interpls(subfreq(freqval,self.nyq)[0])
guess_amp(freqval) == interpls(subfreq(freqval, nyq))

\* the table after add_combination(combostr) when eval gives freqval, an
\* int (intfreq) or a float
add_combination_values(vals, combostr, freqval, intfreq) ==
    add_signal_values(vals, freqval, intfreq, guess_amp(freqval), default_phase,
                      strip_spaces(combostr))

f0 == <<"f", "0">>
f1 == <<"f", "1">>

\* the expressions add_combination is called with
Expressions ==
    { <<"f", "0", " ", "+", "f", "1">>,
      <<"2", "*", "f", "0">>,
      <<"f", "0", "+", "f", "9">>,
      <<"f", "1", "+", "f", "1", "0">>,
      <<"r", "e">> }

\* add_combination(combostr) as a step: the tables it leaves and how it ends;
\* of a value of eval that is no number, subfreq raises
AddCombinationStep(combostr, op) ==
    \E order \in Orders(keys_in(strip_spaces(combostr), values)) :
    \E r \in {combination_freqval(combostr, order, values)} :
        /\ r.k # "inexact"
        /\ IF r.k \in {"raise", "object"}
           THEN /\ UNCHANGED <<values, qgrid_df, signal_markers>>
                /\ last' = Call(op, "raise", {})
           ELSE \E vals \in {add_combination_values(values, combostr, r.v, r.int)} :
                /\ values' = vals
                /\ qgrid_df' = add_signal_qgrid(vals, qgrid_df)
                /\ signal_markers' = markers_of(vals)
                /\ last' = Call(op, "ok", {strip_spaces(combostr)})

AddCombination ==
    /\ steps < MaxSteps
    /\ Len(values) < MaxRows
    /\ \E combostr \in Expressions : AddCombinationStep(combostr, "add_combination")
    /\ before' = NoSnapshot
    /\ steps' = steps + 1
    /\ UNCHANGED <<derived, others>>

f10 == <<"f", "1", "0">>

\* expressions over keys of which one begins with the other, a number, and
\* one with an empty part before its sign
KeyedExpressions ==
    { <<"f", "1", "+", "f", "1", "0">>,
      <<"1", "0">>,
      <<"-", "1">> }

\* add_combination(combostr) on a table with keys of the caller's
AddCombinationKeyed ==
    /\ steps < MaxSteps
    /\ Len(values) < MaxRows
    /\ \E combostr \in KeyedExpressions : AddCombinationStep(combostr, "add_combination")
    /\ before' = NoSnapshot
    /\ steps' = steps + 1
    /\ UNCHANGED <<derived, others>>

(***************************************************************************)
(* _add_staged_signal: the "Add to solution" button                        *)
(***************************************************************************)
\* part.replace('.','',1).isdigit()
is_number_text(text) == isdigit(ReplaceFirst(text, <<".">>, <<>>))

\* np.all([(part in self.values.index) or [part.replace('.','',1).isdigit()]
\*         for part in parts]), as the truth value the if statement takes: with
\* keys and other parts mixed the array (of a numpy that makes it, see
\* ragged) holds objects, True and one-element lists, all of them true; with
\* no key it is an array of the isdigit values
allvalid(parts, vals) ==
    LET iskey(i) == parts[i] \in IndexSet(vals)
    IN  IF \A i \in 1..Len(parts) : iskey(i) THEN TRUE
        ELSE IF \E i \in 1..Len(parts) : iskey(i) THEN TRUE
        ELSE \A i \in 1..Len(parts) : is_number_text(parts[i])

\* the list np.all is given is ragged: True for a key next to a one-element
\* list for another part.  numpy from 1.24 on raises ValueError for it, older
\* numpy makes the array of objects
ragged(parts, vals) ==
    /\ \E i \in 1..Len(parts) : parts[i] \in IndexSet(vals)
    /\ \E i \in 1..Len(parts) : parts[i] \notin IndexSet(vals)

\* what the user types into self._thisfreq and self._thisamp
StagedTexts ==
    { <<"0">>, <<"-", "1">>, <<"f", "0", "+", "1">> }
StagedAmps == {3 * amp_conversion}

\* the user types a text into the widget self._thisfreq
SetThisFreq ==
    /\ steps < MaxSteps
    /\ \E text \in StagedTexts \ {thisfreq} : thisfreq' = text
    /\ last' = Call("_thisfreq", "ok", {})
    /\ before' = NoSnapshot
    /\ steps' = steps + 1
    /\ UNCHANGED <<table, derived, signal_markers, fixed, shown, in_flight>>
    /\ UNCHANGED <<tstype, press, move, thisamp, marker, event, events, flushing>>

\* the user types a number into the widget self._thisamp
SetThisAmp ==
    /\ steps < MaxSteps
    /\ \E amp \in StagedAmps : thisamp # Num(amp) /\ thisamp' = Num(amp)
    /\ last' = Call("_thisamp", "ok", {})
    /\ before' = NoSnapshot
    /\ steps' = steps + 1
    /\ UNCHANGED <<table, derived, signal_markers, fixed, shown, in_flight>>
    /\ UNCHANGED <<tstype, press, move, thisfreq, marker, event, events, flushing>>

\* _add_staged_signal, run when the button is pressed: it reads the two
\* widgets as they are.  The amplitudes of the table are whole numbers of
\* the unit: for an amplitude that is none, or NaN, and for a frequency that
\* is no whole number, the model does not say what the table holds
AddStagedSignal ==
    /\ steps < MaxSteps
    /\ Len(values) < MaxRows
    /\ IF is_number_text(thisfreq)
       THEN /\ LiteralValue(thisfreq).k = "ok"
            /\ thisamp # NaN
            /\ thisamp[1] % amp_conversion = 0
            /\ LET vals == add_signal_values(values, LiteralValue(thisfreq).v, FALSE,
                                             thisamp[1], default_phase, None)
               IN  /\ values' = vals
                   /\ qgrid_df' = add_signal_qgrid(vals, qgrid_df)
                   /\ signal_markers' = markers_of(vals)
                   /\ last' = Call("_add_staged_signal", "ok", {auto_index(values)})
       ELSE \E numpy \in IF ragged(Split(strip_spaces(thisfreq)), values)
                          THEN Numpys ELSE {"older"} :
            IF numpy = "raises"
            THEN /\ UNCHANGED <<values, qgrid_df, signal_markers>>
                 /\ last' = Call("_add_staged_signal", "raise", {})
            ELSE IF allvalid(Split(strip_spaces(thisfreq)), values)
                    /\ Len(Split(strip_spaces(thisfreq))) > 1
            THEN AddCombinationStep(thisfreq, "_add_staged_signal")
            ELSE /\ UNCHANGED <<values, qgrid_df, signal_markers>>
                 /\ last' = Call("_add_staged_signal", "error", {})
    /\ before' = NoSnapshot
    /\ steps' = steps + 1
    /\ UNCHANGED <<derived, fixed, shown, in_flight>>
    /\ UNCHANGED <<tstype, press, move, thisfreq, thisamp, marker, event, events, flushing>>

(***************************************************************************)
(* _update_values_from_qgrid: the table read back from the displayed one,  *)
(* then _update_lcs, _update_signal_markers, _update_lc_display and        *)
(* _update_pers                                                            *)
(***************************************************************************)
\* the same with _update_lcs subtracting the model from the original series
\* in place
update_values_from_qgrid_in_place(df) ==
    LET vals == convert_qgrid_to_values(df)
        model == update_lcs_model(vals)
    IN  /\ values' = vals
        /\ lc_model_observed' = model
        /\ IF is_unique(vals)
           THEN /\ lc_resid' = Resid(model)
                /\ signal_markers' = markers_of(vals)
                /\ lc_orig' = [lc_orig EXCEPT !.flux = Resid(model)]
                /\ lcplot_orig' = Resid(model)
                /\ per_model' = Periodogram(model)
                /\ per_resid' = Periodogram(Resid(model))
           ELSE UNCHANGED <<lc_resid, signal_markers, shown, per_model, per_resid>>

\* _update_values_from_qgrid.  When a label stands on several rows
\* _update_lcs raises in its loop: self.values is assigned and the model
\* series holds the rows before that label, and the residuals, the markers,
\* the series shown and the periodograms are left as they were
update_values_from_qgrid(df) ==
    LET vals == convert_qgrid_to_values(df)
        model == update_lcs_model(vals)
    IN  /\ values' = vals
        /\ lc_model_observed' = model
        /\ IF is_unique(vals)
           THEN /\ lc_resid' = Resid(model)
                /\ signal_markers' = markers_of(vals)
                /\ lc_orig' = lc_orig
                /\ lcplot_orig' = IF tstype = "Original" THEN lc_orig.flux ELSE Resid(model)
                /\ per_model' = Periodogram(model)
                /\ per_resid' = Periodogram(Resid(model))
           ELSE UNCHANGED <<lc_resid, signal_markers, shown, per_model, per_resid>>

(***************************************************************************)
(* _qgrid_changed_manually: one cell of the displayed table edited         *)
(***************************************************************************)
\* the cells edited: every column but the three of the errors
EditColumns == {"include", "freq", "fixfreq", "amp", "fixamp", "phase", "fixphase"}

\* the values typed into a frequency, an amplitude and a phase cell; the
\* frequency cell holds the number as the grid passes it on, an int or a float
EditFreqs == {3} \X BOOLEAN
EditAmps == {3 * amp_conversion}
EditPhases == {1}

edited_row(row, col, v) ==
    CASE col = "include" -> [row EXCEPT !.include = ~@]
      [] col = "fixfreq" -> [row EXCEPT !.fixfreq = ~@]
      [] col = "fixamp" -> [row EXCEPT !.fixamp = ~@]
      [] col = "fixphase" -> [row EXCEPT !.fixphase = ~@]
      [] col = "freq" -> [row EXCEPT !.freq = v[1], !.intfreq = v[2]]
      [] col = "amp" -> [row EXCEPT !.amp = v]
      [] col = "phase" -> [row EXCEPT !.phase = v]

EditInputs(col) ==
    CASE col = "freq" -> EditFreqs
      [] col = "amp" -> EditAmps
      [] col = "phase" -> EditPhases
      [] OTHER -> {0}

\* get_changed_df() after the edit of cell (i, col)
get_changed_df(df, i, col, v) == [df EXCEPT ![i] = edited_row(@, col, v)]

\* the handler raises while it writes its log message when a label stands on
\* several rows (changes is then a frame, and changes[label] a KeyError)
ManualEdit ==
    /\ steps < MaxSteps
    /\ \E i \in 1..Len(qgrid_df), col \in EditColumns :
        \E v \in EditInputs(col) :
            LET newdf == get_changed_df(qgrid_df, i, col, v)
                df == combine_first(newdf, qgrid_df)
            IN  IF ~is_unique(newdf)
                THEN /\ UNCHANGED <<values, qgrid_df, derived, signal_markers, shown>>
                     /\ last' = Call("_qgrid_changed_manually", "raise", {})
                ELSE /\ qgrid_df' = df
                     /\ update_values_from_qgrid(df)
                     /\ last' = Call("_qgrid_changed_manually", "ok", {newdf[i].key})
    /\ before' = NoSnapshot
    /\ steps' = steps + 1
    /\ UNCHANGED <<fixed, pointer, in_flight>>

(***************************************************************************)
(* fit_model and _update_values_from_fit                                   *)
(***************************************************************************)
\* isindep = lambda key: key[1:].isdigit()
isindep(key) == Len(key) >= 1 /\ isdigit(Tail(key))

\* self.values.index[self.values.include]
included(vals) == SelectSeq(vals, LAMBDA r : r.include)

\* the early return taken for an empty table only
nothing_to_fit_empty_table(vals) == Len(vals) = 0

\* np.sum(self.values.include.values) == 0
nothing_to_fit(vals) == Len(included(vals)) = 0

suffix_freq == <<"f", "r", "e", "q">>

\* for key in keys: expression = expression.replace(key, key+'freq')
RECURSIVE substitute_params(_, _)
substitute_params(expression, order) ==
    IF order = <<>> THEN expression
    ELSE substitute_params(Replace(expression, Head(order), Head(order) \o suffix_freq),
                           Tail(order))

\* what the solver may return for a parameter that varies: one value of each
\* kind for all of them, a negative amplitude and a phase beyond a cycle among them
SolverResults ==
    { [freq |-> 3, amp |-> -1, phase |-> 1],
      [freq |-> 1, amp |-> 2, phase |-> 5] }

\* the standard errors lmfit reports: 0 for a fixed parameter
stderr_freq == 1 * freq_conversion
stderr_amp == Scaled(1, 0)
stderr_phase == 1 * 1

\* the frequency parameters of the included independent entries after the fit
freq_params(vals, sol) ==
    LET inc == included(vals)
        ind == {i \in 1..Len(inc) : isindep(inc[i].key)}
        nm(i) == inc[i].key \o suffix_freq
    IN  [n \in {nm(i) : i \in ind} |->
            LET i == CHOOSE j \in ind : nm(j) = n
            IN  IF inc[i].fixfreq THEN freq_conversion * inc[i].freq ELSE sol.freq]

\* the parameters of one included entry after the two fits
fitted(row, vals, order, sol) ==
    [freq |-> IF isindep(row.key)
              THEN Ok(IF row.fixfreq THEN freq_conversion * row.freq ELSE sol.freq, 0)
              ELSE Eval(substitute_params(row.key, order), Names(freq_params(vals, sol))),
     freqerr |-> IF isindep(row.key) /\ row.fixfreq THEN 0 ELSE stderr_freq,
     amp |-> IF row.fixamp THEN row.amp ELSE sol.amp,
     amperr |-> IF row.fixamp THEN Scaled(0, 0) ELSE stderr_amp,
     phase |-> IF row.fixphase THEN row.phase ELSE sol.phase,
     phaseerr |-> IF row.fixphase THEN 0 ELSE stderr_phase]

\* that turn without the modulo that wraps the phase
update_row_from_fit_unwrapped(row, p) ==
    LET freq == p.freq.v \div freq_conversion
        amp == IF p.amp < 0 THEN -p.amp ELSE p.amp
        rectified == IF p.amp < 0 THEN p.phase - Quarter \div 2 ELSE p.phase
    IN  [row EXCEPT !.freq = freq,
                    !.intfreq = FALSE,
                    !.freqerr = Num(p.freqerr \div freq_conversion),
                    !.amp = amp,
                    !.amperr = Num(p.amperr),
                    !.phase = rectified + tshift * freq * freq_conversion,
                    !.phaseerr = Num(p.phaseerr)]

\* that turn without the rectification of a negative amplitude
update_row_from_fit_unrectified(row, p) ==
    LET freq == p.freq.v \div freq_conversion
    IN  [row EXCEPT !.freq = freq,
                    !.intfreq = FALSE,
                    !.freqerr = Num(p.freqerr \div freq_conversion),
                    !.amp = p.amp,
                    !.amperr = Num(p.amperr),
                    !.phase = (p.phase + tshift * freq * freq_conversion) % Quarter,
                    !.phaseerr = Num(p.phaseerr)]

\* one turn of the loop of _update_values_from_fit on the row of an entry
update_row_from_fit(row, p) ==
    LET freq == p.freq.v \div freq_conversion
        amp == IF p.amp < 0 THEN -p.amp ELSE p.amp
        rectified == IF p.amp < 0 THEN p.phase - Quarter \div 2 ELSE p.phase
    IN  [row EXCEPT !.freq = freq,
                    !.intfreq = FALSE,
                    !.freqerr = Num(p.freqerr \div freq_conversion),
                    !.amp = amp,
                    !.amperr = Num(p.amperr),
                    !.phase = (rectified + tshift * freq * freq_conversion) % Quarter,
                    !.phaseerr = Num(p.phaseerr)]

\* the first turn of that loop up to float(stderr) of a stderr that is None
update_row_until_stderr(row, p) ==
    [row EXCEPT !.freq = p.freq.v \div freq_conversion, !.intfreq = FALSE]

\* the keys the expressions of the included combinations hold
linked_keys(vals) ==
    UNION {keys_in(vals[i].key, vals) :
             i \in {j \in 1..Len(vals) : vals[j].include /\ ~isindep(vals[j].key)}}

\* the order the keys of one entry are replaced in, given an order of them all
order_of(row, vals, order) == SelectSeq(order, LAMBDA key : key \in keys_in(row.key, vals))

\* the parameters of row i after the two fits
fitted_row(vals, i, order, sol) == fitted(vals[i], vals, order_of(vals[i], vals, order), sol)

\* the table after the loop of _update_values_from_fit
update_values_from_fit(vals, order, sol) ==
    [i \in 1..Len(vals) |->
        IF vals[i].include
        THEN update_row_from_fit(vals[i], fitted_row(vals, i, order, sol))
        ELSE vals[i]]

\* the expression of every included combination evaluates over the parameters
links(vals, order, sol) ==
    {fitted_row(vals, i, order, sol).freq.k : i \in {j \in 1..Len(vals) : vals[j].include}}

\* self.values.amp[prefix] and the like are one number for every included key
one_row_each(vals) ==
    \A i \in 1..Len(vals) : vals[i].include => Len(RowsOf(vals, vals[i].key)) = 1

first_included(vals) ==
    CHOOSE i \in 1..Len(vals) : vals[i].include /\ \A j \in 1..(i - 1) : ~vals[j].include

\* a fit_model call that completed, and what the solver returned to it
Fitted(keys, sol) == [op |-> "fit_model", res |-> "ok", keys |-> keys, sol |-> sol]

\* fit_model.  The solver is lmfit's: it may raise, it may return without
\* standard errors (stderr is None), or it returns values and standard errors.
\* With nothing included and no early return the sum of no models is a
\* number, and calling its fit raises.
FitModel ==
    /\ steps < MaxSteps
    /\ \E sol \in SolverResults, outcome \in {"ok", "raise", "no stderr"} :
       \E order \in Orders(linked_keys(values)) :
       \E linked \in {links(values, order, sol)} :
        IF nothing_to_fit(values)
        THEN /\ UNCHANGED <<values, qgrid_df, derived, signal_markers, shown>>
             /\ last' = Call("fit_model", "nothing to fit", {})
        ELSE IF \/ included(values) = <<>>
                \/ ~one_row_each(values)
                \/ "raise" \in linked
                \/ outcome = "raise"
        THEN /\ UNCHANGED <<values, qgrid_df, derived, signal_markers, shown>>
             /\ last' = Call("fit_model", "raise", {})
        ELSE IF outcome = "no stderr"
        THEN LET i == first_included(values)
                 p == fitted_row(values, i, order, sol)
             IN  /\ "inexact" \notin linked
                 /\ values' = [values EXCEPT ![i] = update_row_until_stderr(@, p)]
                 /\ UNCHANGED <<qgrid_df, derived, signal_markers, shown>>
                 /\ last' = Call("fit_model", "raise in commit", {})
        ELSE \E df \in {combine_first(convert_values_to_qgrid(
                                         update_values_from_fit(values, order, sol)),
                                     qgrid_df)} :
                 /\ "inexact" \notin linked
                 /\ qgrid_df' = df
                 /\ update_values_from_qgrid(df)
                 /\ last' = IF is_unique(df)
                            THEN Fitted(IndexSet(included(values)), sol)
                            ELSE Call("fit_model", "raise in update", {})
    /\ before' = NoSnapshot
    /\ steps' = steps + 1
    /\ UNCHANGED <<fixed, pointer, in_flight>>

(***************************************************************************)
(* fit_model as its callers run it: it reads the table and builds the      *)
(* parameters (lines 532-573), runs the first fit (line 576), reads the    *)
(* table again to let the frequencies vary (lines 579-585), runs the       *)
(* second fit (line 587), and _update_values_from_fit commits what it      *)
(* returned.  Each model.fit call takes as long as the solver needs, and   *)
(* nothing in the code keeps a second caller out, or the table still,      *)
(* meanwhile.                                                              *)
(***************************************************************************)
\* what a call holds while a model.fit call runs: the rows it has built its
\* parameters from, the order it replaced the keys in, what the solver will
\* return, and which of the two fits is running
Reading(vals, order, sol, fit) ==
    <<[vals |-> vals, order |-> order, sol |-> sol, fit |-> fit]>>

\* lines 532-576 for one caller, up to the call of the first model.fit
FitEnter ==
    /\ steps < MaxSteps
    /\ \E c \in Callers, sol \in SolverResults :
       \E order \in Orders(linked_keys(values)) :
       \E linked \in {links(values, order, sol)} :
        /\ in_flight[c] = NoFit
        /\ IF nothing_to_fit(values)
           THEN /\ UNCHANGED in_flight
                /\ last' = Call("fit_model", "nothing to fit", {})
           ELSE IF ~one_row_each(values) \/ "raise" \in linked
           THEN /\ UNCHANGED in_flight
                /\ last' = Call("fit_model", "raise", {})
           ELSE /\ "inexact" \notin linked
                /\ in_flight' = [in_flight EXCEPT ![c] = Reading(values, order, sol, 1)]
                /\ last' = Call("fit_model", "entered", {c})
    /\ before' = NoSnapshot
    /\ steps' = steps + 1
    /\ UNCHANGED <<values, qgrid_df, derived, signal_markers, fixed, shown, pointer>>

\* an included independent row of the table as it is now that the call has
\* no parameters for: prefixmap[prefix] at line 583 is a KeyError
unknown_indep(cur, vals) ==
    \E i \in 1..Len(cur) :
        /\ cur[i].include
        /\ isindep(cur[i].key)
        /\ cur[i].key \notin IndexSet(included(vals))

\* the loop of lines 581-585 over the table as it is now: the frequency of
\* an independent entry varies in the second fit when the entry is included
\* now and its fixfreq is not ticked now; every other frequency stays fixed
\* as line 555 has set it
refine(vals, cur) ==
    [i \in 1..Len(vals) |->
        IF vals[i].include /\ isindep(vals[i].key)
        THEN [vals[i] EXCEPT !.fixfreq =
                ~\E j \in 1..Len(cur) :
                    cur[j].include /\ cur[j].key = vals[i].key /\ ~cur[j].fixfreq]
        ELSE vals[i]]

\* lines 576-587 for one caller: the first model.fit returns or raises, the
\* loop reads the table as it is now, the second model.fit is called
FitRefine ==
    /\ \E c \in Callers, outcome \in {"ok", "raise"} :
        /\ in_flight[c] # NoFit
        /\ \E r \in {in_flight[c][1]} :
           \E vals \in {refine(r.vals, values)} :
           \E linked \in {links(vals, r.order, r.sol)} :
            /\ r.fit = 1
            /\ IF outcome = "raise" \/ unknown_indep(values, r.vals) \/ "raise" \in linked
               THEN /\ in_flight' = [in_flight EXCEPT ![c] = NoFit]
                    /\ last' = Call("fit_model", "raise", {c})
               ELSE /\ "inexact" \notin linked
                    /\ in_flight' = [in_flight EXCEPT ![c] = Reading(vals, r.order, r.sol, 2)]
                    /\ last' = Call("fit_model", "refining", {c})
    /\ before' = NoSnapshot
    /\ UNCHANGED <<values, qgrid_df, derived, signal_markers, fixed, shown, pointer, steps>>

\* the first included row of the table as it is now that the call has no
\* parameters for (prefixmap[prefix] is a KeyError), or none
unknown_row(cur, vals) ==
    LET bad == {i \in 1..Len(cur) : cur[i].include /\ cur[i].key \notin IndexSet(included(vals))}
    IN  IF bad = {} THEN Len(cur) + 1 ELSE CHOOSE i \in bad : \A j \in bad : i <= j

\* the row of the table the call has read that has the key of row i of the
\* table as it is now
read_row(cur, i, vals) == CHOOSE j \in 1..Len(vals) : vals[j].key = cur[i].key

\* the loop of _update_values_from_fit over the table as it is now, with the
\* parameters fitted to the table as it was read
committed_rows(cur, r) ==
    [i \in 1..Len(cur) |->
        IF cur[i].include /\ i < unknown_row(cur, r.vals)
        THEN update_row_from_fit(cur[i],
                fitted_row(r.vals, read_row(cur, i, r.vals), r.order, r.sol))
        ELSE cur[i]]

\* lines 587-590 for one caller: the second model.fit raises, or returns
\* without standard errors or with them, and _update_values_from_fit runs
FitReturn ==
    /\ \E c \in Callers, outcome \in {"ok", "raise", "no stderr"} :
        /\ in_flight[c] # NoFit
        /\ in_flight' = [in_flight EXCEPT ![c] = NoFit]
        /\ \E r \in {in_flight[c][1]} :
           \E vals \in {committed_rows(values, r)} :
            /\ r.fit = 2
            /\ IF outcome = "raise"
               THEN /\ UNCHANGED <<values, qgrid_df, derived, signal_markers, shown>>
                    /\ last' = Call("fit_model", "raise", {c})
               ELSE IF outcome = "no stderr" /\ ~nothing_to_fit(values)
               THEN /\ values' =
                         IF unknown_row(values, r.vals) = first_included(values)
                         THEN values
                         ELSE [values EXCEPT ![first_included(values)] =
                                 update_row_until_stderr(@,
                                     fitted_row(r.vals,
                                                read_row(values, first_included(values), r.vals),
                                                r.order, r.sol))]
                    /\ UNCHANGED <<qgrid_df, derived, signal_markers, shown>>
                    /\ last' = Call("fit_model", "raise in commit", {c})
               ELSE IF unknown_row(values, r.vals) <= Len(values)
               THEN /\ values' = vals
                    /\ UNCHANGED <<qgrid_df, derived, signal_markers, shown>>
                    /\ last' = Call("fit_model", "raise in commit", {c})
               ELSE \E df \in {combine_first(convert_values_to_qgrid(vals), qgrid_df)} :
                    /\ qgrid_df' = df
                    /\ update_values_from_qgrid(df)
                    /\ last' = IF is_unique(df)
                               THEN Fitted(IndexSet(included(values)), r.sol)
                               ELSE Call("fit_model", "raise in update", {c})
    /\ before' = NoSnapshot
    /\ UNCHANGED <<steps, fixed, pointer>>

(***************************************************************************)
(* The handlers of the periodogram canvas (onpress, onmove, onrelease,     *)
(* onclick) and of the series selector (_update_lc_display).               *)
(***************************************************************************)
\* where the pointer is released, in halves of the frequency unit: left of
\* the grid, between two grid frequencies, next to the peak, on the last
\* grid frequency, right of the grid
ClickPlaces == {-1, 1, 3, 4, 9}

\* the displayed range of the frequency axis, in halves of the frequency unit
Widths == {4, 300}

\* a button is held down: it was pressed since the last release
ButtonDown == \E i \in 1..Len(events) : events[i] = "press"

\* onpress(event), for any button, whether or not another is held down
OnPress ==
    /\ steps < MaxSteps
    /\ press' = TRUE
    /\ event' = Event(event.n + 1, "press", FALSE, "ok", 0, 0, FALSE)
    /\ events' = Append(events, "press")
    /\ last' = Call("onpress", "ok", {})
    /\ before' = NoSnapshot
    /\ steps' = steps + 1
    /\ UNCHANGED <<table, derived, signal_markers, fixed, shown, in_flight>>
    /\ UNCHANGED <<tstype, move, thisfreq, thisamp, marker, flushing>>

\* onmove(event), with a button held down or with none
OnMove ==
    /\ steps < MaxSteps
    /\ move' = IF press THEN TRUE ELSE move
    /\ event' = Event(event.n + 1, "move", FALSE, "ok", 0, 0, FALSE)
    /\ events' = Append(events, "move")
    /\ last' = Call("onmove", "ok", {})
    /\ before' = NoSnapshot
    /\ steps' = steps + 1
    /\ UNCHANGED <<table, derived, signal_markers, fixed, shown, in_flight>>
    /\ UNCHANGED <<tstype, press, thisfreq, thisamp, marker, flushing>>

\* onrelease(event), whether or not onpress has run since the last release:
\* onclick when the press flag is set and the move flag is not, then both
\* flags reset.  An exception of the click handler leaves the function before the
\* reset; update_marker ends in canvas.flush_events(), which hands the
\* control back to the event loop, so that after a click the reset waits
\* until flush_events returns (FlushReturn) and handlers may run before it
OnRelease ==
    /\ steps < MaxSteps
    /\ \E xdata \in ClickPlaces, width \in Widths, snaptopeak \in BOOLEAN,
          numpy \in Numpys :
        LET clicked == press /\ ~move
            r == onperiodogramclick(xdata, width, snaptopeak, numpy)
        IN  /\ IF clicked
               THEN /\ UNCHANGED <<press, move>>
                    /\ IF r.res = "raise"
                       THEN UNCHANGED <<thisfreq, thisamp, marker, flushing>>
                       ELSE /\ thisfreq' = r.to.thisfreq
                            /\ thisamp' = r.to.thisamp
                            /\ marker' = r.to.marker
                            /\ flushing' = Append(flushing, "onrelease")
               ELSE /\ press' = FALSE
                    /\ move' = FALSE
                    /\ UNCHANGED <<thisfreq, thisamp, marker, flushing>>
            /\ event' = IF clicked
                        THEN Event(event.n + 1, "release", TRUE, r.res, xdata, width,
                                   snaptopeak)
                        ELSE Event(event.n + 1, "release", FALSE, "ok", 0, 0, FALSE)
    /\ events' = <<>>
    /\ last' = Call("onrelease", event'.res, {})
    /\ before' = NoSnapshot
    /\ steps' = steps + 1
    /\ UNCHANGED <<table, derived, signal_markers, fixed, in_flight>>
    /\ UNCHANGED <<shown, tstype>>

\* canvas.flush_events() of the innermost update_marker returns, and with it
\* update_marker and its callers; in onrelease the reset of the flags follows
FlushReturn ==
    /\ flushing # <<>>
    /\ flushing' = SubSeq(flushing, 1, Len(flushing) - 1)
    /\ IF flushing[Len(flushing)] = "onrelease"
       THEN /\ press' = FALSE
            /\ move' = FALSE
       ELSE UNCHANGED <<press, move>>
    /\ last' = Call(flushing[Len(flushing)], "returned", {})
    /\ before' = NoSnapshot
    /\ UNCHANGED <<table, derived, signal_markers, fixed, shown, in_flight, steps>>
    /\ UNCHANGED <<tstype, thisfreq, thisamp, marker, event, events>>

\* onclick(event), or onperiodogramclick(event), called by the user's code:
\* the flags are neither read nor written
OnClick ==
    /\ steps < MaxSteps
    /\ flushing = <<>>
    /\ \E xdata \in ClickPlaces, width \in Widths, snaptopeak \in BOOLEAN,
          numpy \in Numpys :
        LET r == onperiodogramclick(xdata, width, snaptopeak, numpy)
        IN  /\ IF r.res = "raise"
               THEN UNCHANGED <<thisfreq, thisamp, marker, flushing>>
               ELSE /\ thisfreq' = r.to.thisfreq
                    /\ thisamp' = r.to.thisamp
                    /\ marker' = r.to.marker
                    /\ flushing' = Append(flushing, "onclick")
            /\ event' = Event(event.n + 1, "onclick", TRUE, r.res, xdata, width,
                              snaptopeak)
    /\ last' = Call("onclick", event'.res, {})
    /\ before' = NoSnapshot
    /\ steps' = steps + 1
    /\ UNCHANGED <<table, derived, signal_markers, fixed, shown, in_flight>>
    /\ UNCHANGED <<tstype, press, move, events>>

\* the places and heights update_marker is called with by the user's code
MarkerPlaces == {1, 4}
MarkerAmps == {0, 3 * amp_conversion}

\* update_marker(x, y) called by the user's code
UpdateMarker ==
    /\ steps < MaxSteps
    /\ flushing = <<>>
    /\ \E x \in MarkerPlaces, y \in MarkerAmps :
        LET to == update_marker(x, Num(y))
        IN  /\ thisfreq' = to.thisfreq
            /\ thisamp' = to.thisamp
            /\ marker' = to.marker
            /\ event' = Event(event.n + 1, "update_marker", FALSE, "ok", x, 0, FALSE)
    /\ flushing' = Append(flushing, "update_marker")
    /\ last' = Call("update_marker", "ok", {})
    /\ before' = NoSnapshot
    /\ steps' = steps + 1
    /\ UNCHANGED <<table, derived, signal_markers, fixed, shown, in_flight>>
    /\ UNCHANGED <<tstype, press, move, events>>

TsTypes == {"Original", "Residuals"}

\* _update_lc_display, run when the selector changes: _display_original_lc
\* or _display_residuals_lc
UpdateLcDisplay ==
    /\ steps < MaxSteps
    /\ \E displaytype \in TsTypes \ {tstype} :
        /\ tstype' = displaytype
        /\ lcplot_orig' = IF displaytype = "Original" THEN lc_orig.flux ELSE lc_resid
    /\ lc_orig' = lc_orig
    /\ last' = Call("_update_lc_display", "ok", {})
    /\ before' = NoSnapshot
    /\ steps' = steps + 1
    /\ UNCHANGED <<table, derived, signal_markers, fixed, in_flight>>
    /\ UNCHANGED <<press, move, thisfreq, thisamp, marker, event, events, flushing>>

Next ==
    \/ AddSignal
    \/ AddCombination
    \/ SetThisFreq
    \/ SetThisAmp
    \/ AddStagedSignal
    \/ ManualEdit
    \/ FitModel
    \/ DeleteRows
    \/ DeleteSelected

Spec == Init /\ [][Next]_vars

\* the calls that give automatic keys, combinations and deletions only
NextAuto == AddSignalAuto \/ AddCombination \/ DeleteRows \/ DeleteSelected

SpecAuto == Init /\ [][NextAuto]_vars

\* the periodogram canvas alone, for any of the periodograms: the events of
\* the pointer and the calls of the click handlers by the user's code
NextClick == OnPress \/ OnMove \/ OnRelease \/ FlushReturn \/ OnClick \/ UpdateMarker

SpecClick == InitClick /\ [][NextClick]_vars

\* tables whose keys the caller chooses
NextKeys == AddSignalKeyed \/ AddCombinationKeyed \/ FitModel \/ DeleteRows

SpecKeys == Init /\ [][NextKeys]_vars

\* the table, the series selector and the periodogram canvas in use together;
\* while update_marker is inside flush_events the event loop runs the handlers
\* of the canvas, and the other operations wait for it to return
NextGui ==
    \/ flushing = <<>> /\ AddSignalAuto
    \/ flushing = <<>> /\ DeleteRows
    \/ flushing = <<>> /\ ManualEdit
    \/ flushing = <<>> /\ FitModel
    \/ flushing = <<>> /\ SetThisFreq
    \/ flushing = <<>> /\ SetThisAmp
    \/ flushing = <<>> /\ AddStagedSignal
    \/ flushing = <<>> /\ UpdateLcDisplay
    \/ OnPress
    \/ OnMove
    \/ OnRelease
    \/ FlushReturn

SpecGui == Init /\ [][NextGui]_vars

\* two callers of fit_model, and the table changed by add_signal and by hand
NextFits == FitEnter \/ FitRefine \/ FitReturn \/ AddSignalAuto \/ ManualEdit

SpecFits == Init /\ [][NextFits]_vars

(***************************************************************************)
(* The claims.                                                             *)
(***************************************************************************)
\* a key that is an expression: it holds an operator character
IsCombination(key) == \E i \in 1..Len(key) : IsOperator(key[i])

\* the stored frequency of every key that stands on one row
FreqOf(vals) ==
    [key \in {k \in IndexSet(vals) : Len(RowsOf(vals, k)) = 1} |-> RowsOf(vals, key)[1].freq]

\* C1: the stored frequency of every combination entry is the value of its
\* expression over the stored frequencies of the entries it names, in every
\* state any sequence of adds, edits, fits and deletes leads to.
C1_CombinationDerived ==
    \A i \in 1..Len(values) :
        (IsCombination(values[i].key) /\ Eval(values[i].key, Names(FreqOf(values))).k = "ok")
            => values[i].freq = Eval(values[i].key, Names(FreqOf(values))).v

\* C2: after add_signal with the automatic key, add_combination and deletes
\* the keys of the table are pairwise distinct, and the automatic key
\* add_signal takes is no key of the table it is added to.
C2_KeysDistinct ==
    [][/\ is_unique(values')
       /\ last'.op = "add_signal" => \A key \in last'.keys : key \notin IndexSet(values)]_vars

\* C3: add_signal followed by delete_rows of the key add_signal made leaves
\* the table as it was before the add.
C3_AddDeleteRoundTrip ==
    (/\ last.op = "delete_rows"
     /\ before # NoSnapshot
     /\ last.keys = {before[1].key})
        => values = before[1].values

\* C4: a fit_model that does not complete leaves the values and the
\* uncertainties of every entry as they were before the call.
C4_FitAtomic ==
    [][(last'.op = "fit_model" /\ last'.res # "ok") => values' = values]_vars

\* the baseline plus the sinusoids of all the rows of a table
ModelOf(vals) == [i \in Samples |-> Mean(lc_orig.flux) + SumSines(vals, lc_orig.time[i])]

\* C5: whenever the model series are regenerated they are the baseline plus
\* the sinusoids of the entries whose include flag is true, and no others.
C5_ModelOfIncluded ==
    (last.op \in {"fit_model", "_qgrid_changed_manually"} /\ last.res = "ok")
        => /\ lc_model_observed = ModelOf(included(values))
           /\ lc_resid = Resid(ModelOf(included(values)))

\* C6: after every completed mutation of the table the model series is the
\* model of the entries of the table, the residual is the original minus it,
\* and the two periodograms are those of these series.
C6_DerivedConsistent ==
    /\ lc_model_observed = ModelOf(values)
    /\ lc_resid = Resid(ModelOf(values))
    /\ per_model = Periodogram(ModelOf(values))
    /\ per_resid = Periodogram(Resid(ModelOf(values)))

\* C7: a completed fit leaves every parameter of an included entry whose
\* fixed flag is set at its stored value: the frequency of an independent
\* entry, the amplitude, the phase.
C7_FixedParametersKept ==
    [][(last'.op = "fit_model" /\ last'.res = "ok") =>
        \A i \in 1..Len(values), j \in 1..Len(values') :
            (values[i].include /\ values'[j].key = values[i].key) =>
                /\ (values[i].fixfreq /\ isindep(values[i].key))
                        => values'[j].freq = values[i].freq
                /\ values[i].fixamp => values'[j].amp = values[i].amp
                /\ values[i].fixphase => values'[j].phase = values[i].phase]_vars

\* C8: no independent signal is added with a frequency that is not positive,
\* by add_signal or by the "Add to solution" button: such an add is rejected.
C8_InvalidFrequencyRejected ==
    [][(/\ last'.op \in {"add_signal", "_add_staged_signal"}
        /\ last'.res = "ok"
        /\ \A key \in last'.keys : ~IsCombination(key))
            => values'[Len(values')].freq > 0]_vars

\* C9: no combination is added whose expression holds a token that is neither
\* a number nor a key of the table: add_combination fails on it and the
\* table stays as it is, also by the "Add to solution" button.
C9_UnknownKeyRejected ==
    [][(/\ last'.op \in {"add_combination", "_add_staged_signal"}
        /\ last'.res = "ok")
            => \A key \in {k \in last'.keys : IsCombination(k)} :
                 \A part \in SeqToSet(Split(key)) :
                    is_number_text(part) \/ part \in IndexSet(values)]_vars

\* C10: fit_model called when no entry has include = true returns without
\* raising and changes neither the table nor the series nor the periodograms.
C10_FitNothingIncluded ==
    [][(last'.op = "fit_model" /\ \A i \in 1..Len(values) : ~values[i].include)
        => /\ last'.res = "nothing to fit"
           /\ UNCHANGED <<values, qgrid_df, lc_model_observed, lc_resid,
                          per_model, per_resid, signal_markers>>]_vars

\* C10: fit_model has returned early on a table that has entries, none included
C10_Witness ==
    /\ last.op = "fit_model"
    /\ last.res = "nothing to fit"
    /\ Len(values) > 0

\* the rows of the entries the last completed fit was made of
FittedRows == {i \in 1..Len(values) : values[i].key \in last.keys}

FitCompleted == last.op = "fit_model" /\ last.res = "ok"

\* C11: after a fit_model call that completes every entry that was included
\* in it has a stored amplitude >= 0 and a stored phase in [0, 1), whatever
\* the solver returned, combinations and independent entries alike.
C11_AmplitudePhaseNormalized ==
    FitCompleted =>
        \A i \in FittedRows :
            /\ values[i].amp >= 0
            /\ values[i].phase >= 0
            /\ values[i].phase < Quarter

\* C11: a fit has completed on a free combination entry and a free
\* independent one, the solver having returned a negative amplitude
C11_Witness ==
    /\ FitCompleted
    /\ last.sol.amp < 0
    /\ \E i, j \in FittedRows :
        /\ IsCombination(values[i].key) /\ ~values[i].fixamp /\ ~values[i].fixphase
        /\ isindep(values[j].key) /\ ~values[j].fixamp /\ ~values[j].fixphase

\* the rows of the last completed fit whose amplitude and phase the solver set
FreeFittedRows == {i \in FittedRows : ~values[i].fixamp /\ ~values[i].fixphase}

\* the phase p moved by half a cycle, within a cycle
HalfCycleOn(p) == (p + Quarter \div 2) % Quarter

\* C12 as stated: a fit outcome with a negative amplitude -A and phase p is
\* stored as amplitude A and phase (p + 0.5) mod 1, and the samples of
\* (A, (p + 0.5) mod 1) equal those of (-A, p) at every sample time.
C12_RectifiedAsStated ==
    (FitCompleted /\ last.sol.amp < 0) =>
        \A i \in FreeFittedRows :
            /\ values[i].amp = -last.sol.amp
            /\ values[i].phase = HalfCycleOn(last.sol.phase)
            /\ \A n \in Samples :
                sin(lc_orig.time[n], values[i].freq, -last.sol.amp, HalfCycleOn(last.sol.phase))
                    = sin(lc_orig.time[n], values[i].freq, last.sol.amp, last.sol.phase)

\* C12 amended: a fit outcome with a negative amplitude -A and phase p is
\* stored as amplitude A and phase (p + 0.5 + tshift * frequency) mod 1, the
\* rectified phase referred to the times as given; the samples of
\* (A, (p + 0.5) mod 1) equal those of (-A, p) at every sample time, and the
\* stored amplitude and phase give at the times as given the samples the
\* fitted ones give at the shifted times.
C12_RectifiedAndReferenced ==
    (FitCompleted /\ last.sol.amp < 0) =>
        \A i \in FreeFittedRows :
            /\ values[i].amp = -last.sol.amp
            /\ values[i].phase
                = (HalfCycleOn(last.sol.phase) + tshift * values[i].freq * freq_conversion) % Quarter
            /\ \A n \in Samples :
                /\ sin(lc_orig.time[n], values[i].freq, -last.sol.amp, HalfCycleOn(last.sol.phase))
                    = sin(lc_orig.time[n], values[i].freq, last.sol.amp, last.sol.phase)
                /\ sin(lc_orig.time[n], values[i].freq, values[i].amp, values[i].phase)
                    = sin(lc_orig.time[n] + tshift, values[i].freq, last.sol.amp, last.sol.phase)

\* C12: a negative amplitude has been rectified and the change of the time
\* origin has moved the stored phase off (p + 0.5) mod 1
C12_Witness ==
    /\ FitCompleted
    /\ last.sol.amp < 0
    /\ \E i \in FreeFittedRows :
        /\ values[i].amp = -last.sol.amp
        /\ values[i].phase # HalfCycleOn(last.sol.phase)

InFlight(f) == {c \in Callers : f[c] # NoFit}

\* C13: at most one fit is in flight on a table at any time, and while a fit
\* is in flight, between its read of the table and its commit, nothing else
\* changes the table: no other fit commits, no add or edit takes effect.
C13_OneFitInFlight ==
    [][/\ Cardinality(InFlight(in_flight')) <= 1
       /\ (\E c \in InFlight(in_flight) : in_flight'[c] = in_flight[c])
            => UNCHANGED <<values, qgrid_df>>]_vars

\* C14: the original series, the periodogram of the original series and the
\* frequency grid are what __init__ made them, whatever is added, deleted,
\* edited, fitted, displayed or clicked; the periodograms of the model and of
\* the residuals stay on that grid.
C14_OriginalFixed ==
    /\ lc_orig = [time |-> lc_orig_time, flux |-> lc_orig_flux]
    /\ per_orig = [power |-> per_orig_power, nan |-> {}]
    /\ self_freqs = freqs
    /\ per_model.frequency = freqs
    /\ per_resid.frequency = freqs

\* a fitted signal has changed the model and the residuals, and the residuals
\* are the series displayed
C14_Witness ==
    /\ \E i \in 1..Len(values) : values[i].include /\ values[i].amp # 0
    /\ lc_model_observed # [i \in Samples |-> Mean(lc_orig_flux)]
    /\ tstype = "Residuals"
    /\ lcplot_orig = lc_resid
    /\ lcplot_orig # lc_orig_flux
    /\ per_resid # Periodogram(lc_orig_flux)

Adds == {"add_signal", "add_combination", "_add_staged_signal"}
Deletes == {"delete_rows", "_delete_selected"}

\* one row more, and every row there was is still there as it was
OneAdded(old, new) ==
    /\ Len(new) = Len(old) + 1
    /\ \A i \in 1..Len(old) : \E j \in 1..Len(new) : new[j] = old[i]

\* the rows with the given keys gone, and every other row there as it was
Removed(old, new, keys) ==
    /\ \A j \in 1..Len(new) : new[j].key \notin keys
    /\ Len(new) = Cardinality({i \in 1..Len(old) : old[i].key \notin keys})
    /\ \A i \in 1..Len(old) : old[i].key \notin keys => \E j \in 1..Len(new) : new[j] = old[i]

\* the part of C15 about self.values alone
ValuesFrame ==
    [][/\ (last'.op \in Adds /\ last'.res = "ok") => OneAdded(values, values')
       /\ (last'.op \in Deletes /\ last'.res = "ok") => Removed(values, values', last'.keys)]_vars

\* C15: an add (add_signal, add_combination, the staged add) adds exactly one
\* entry and leaves every entry there was as it was, in the table and in the
\* displayed table; a delete removes exactly the entries with the given keys
\* and leaves the others, dangling combinations included, as they were.
C15_StructuralFrame ==
    [][/\ (last'.op \in Adds /\ last'.res = "ok")
            => OneAdded(values, values') /\ OneAdded(qgrid_df, qgrid_df')
       /\ (last'.op \in Deletes /\ last'.res = "ok")
            => /\ Removed(values, values', last'.keys)
               /\ Removed(qgrid_df, qgrid_df', last'.keys)]_vars

Without(index, keys) == SelectSeq(index, LAMBDA k : k \notin keys)

\* what a call that ended well makes of the order of the keys of a table that
\* keeps its entries in the order they were inserted in
InsertionOrder(old, new) ==
    IF last'.op \in Adds /\ last'.res = "ok"
    THEN new = Append(old, CHOOSE k \in last'.keys : TRUE)
    ELSE IF last'.op \in Deletes /\ last'.res = "ok"
    THEN new = Without(old, last'.keys)
    ELSE new = old

\* C16: the entries of the table and of the displayed table stand in the
\* order they were inserted in: an add puts its entry last, a delete takes
\* entries out of the order, and a manual edit or a fit moves no entry.
C16_InsertionOrder ==
    [][/\ InsertionOrder(Index(values), Index(values'))
       /\ InsertionOrder(Index(qgrid_df), Index(qgrid_df'))]_vars

\* every part of the expression between the operators is a number or the key
\* of one entry of the table
ValidTokens(key, vals) ==
    \A part \in SeqToSet(Split(key)) :
        is_number_text(part) \/ (part \in IndexSet(vals) /\ Len(RowsOf(vals, part)) = 1)

\* C17: add_combination of an expression whose tokens are numbers and keys
\* of the table, keys that begin with other keys included, adds one entry
\* under the expression without its spaces, at the value of the expression
\* over the frequencies of the keys; and a completed fit leaves every included
\* combination of that kind at the value of its expression over the fitted
\* frequencies of the entries it names.
C17_CombinationByTokens ==
    [][/\ (last'.op = "add_combination" /\ last'.res = "ok")
            => LET key == CHOOSE k \in last'.keys : TRUE
                   new == values'[Len(values')]
               IN  ValidTokens(key, values)
                     => /\ Len(values') = Len(values) + 1
                        /\ new.key = key
                        /\ new.freq = Eval(key, Names(FreqOf(values))).v
       /\ (last'.op = "fit_model" /\ last'.res = "ok")
            => \A i \in 1..Len(values') :
                 (/\ values'[i].include
                  /\ IsCombination(values'[i].key)
                  /\ ValidTokens(values'[i].key, values'))
                    => values'[i].freq = Eval(values'[i].key, Names(FreqOf(values'))).v]_vars

\* the grid points within the tolerance of a place, and those of them whose
\* power is a number
Window(x, width) ==
    {i \in DOMAIN self_freqs :
        /\ Percent * (place(i) - x) <= tolerance(width)
        /\ Percent * (x - place(i)) <= tolerance(width)}
Finite(x, width) == Window(x, width) \ per_orig.nan

\* y is the value at x of the straight line through the powers at the grid
\* points lo and lo + 1, or NaN when one of the two is
OnTheLine(x, y, lo) ==
    IF {lo, lo + 1} \cap per_orig.nan # {} THEN y = NaN
    ELSE /\ y # NaN
         /\ (y[1] - per_orig.power[lo]) * (place(lo + 1) - place(lo))
              = (per_orig.power[lo + 1] - per_orig.power[lo]) * (x - place(lo))

\* the last event is a click: onperiodogramclick has been called
Clicked == event.ev \in {"release", "onclick"} /\ event.clicked

\* C18: after a click at x with snap-to-peak on the selection is a grid
\* point g within the tolerance of x whose power is a number and the largest
\* of those in the window, with the power at g; after a click with
\* snap-to-peak off it is x and the linear interpolation of the power at x.
C18_EveryClick ==
    Clicked
        => IF event.snaptopeak
           THEN \E g \in Finite(event.xdata, event.width) :
                    /\ marker = <<place(g), Num(per_orig.power[g])>>
                    /\ thisfreq = str_place(place(g))
                    /\ thisamp = Num(per_orig.power[g])
                    /\ \A j \in Finite(event.xdata, event.width) :
                            per_orig.power[j] <= per_orig.power[g]
           ELSE /\ marker = <<event.xdata, thisamp>>
                /\ thisfreq = str_place(event.xdata)
                /\ \E lo \in 1..(Len(self_freqs) - 1) :
                     /\ place(lo) <= event.xdata
                     /\ event.xdata <= place(lo + 1)
                     /\ OnTheLine(event.xdata, thisamp, lo)

\* among the events since the previous release there is a press with no move
\* after it
CleanPress(evs) ==
    \E i \in 1..Len(evs) : evs[i] = "press" /\ \A j \in (i + 1)..Len(evs) : evs[j] # "move"

\* C19: a release calls onclick exactly when a button was pressed since the
\* previous release and the pointer did not move between that press and the
\* release; a move with no button held down does not set the move flag; and
\* when the handler of a release returns, at once or after the flush_events
\* of its click, the press flag and the move flag are both false.
C19_ClickNotDrag ==
    [][/\ (event'.n = event.n + 1 /\ event'.ev = "release")
            => /\ event'.clicked <=> CleanPress(events)
               /\ flushing' = flushing => (press' = FALSE /\ move' = FALSE)
       /\ (Len(flushing') < Len(flushing) /\ flushing[Len(flushing)] = "onrelease")
            => (press' = FALSE /\ move' = FALSE)
       /\ (event'.n = event.n + 1 /\ event'.ev = "move" /\ ~ButtonDown)
            => (move' => move)]_vars

\* the entry the last call has added
Created == values'[Len(values')]

\* fit_model gives the entry a frequency parameter of its own: whatever the
\* solver returns for it is the entry's fitted frequency
OwnFrequency(row, vals) ==
    \A sol \in SolverResults :
        fitted(row, vals, <<>>, sol).freq.k = "ok"
            /\ fitted(row, vals, <<>>, sol).freq.v
                 = IF row.fixfreq THEN freq_conversion * row.freq ELSE sol.freq

\* fit_model links the entry's frequency to its expression over the frequency
\* parameters of the entries it names
LinkedFrequency(row, vals) ==
    \A sol \in SolverResults : \A order \in Orders(keys_in(row.key, vals)) :
        fitted(row, vals, order, sol).freq
            = Eval(substitute_params(row.key, order), Names(freq_params(vals, sol)))

\* C20: fit_model treats an entry as independent, with a frequency parameter
\* of its own, when add_signal created it, whatever its key, and as a
\* combination, with a frequency linked to its expression, when
\* add_combination created it, whatever the expression.
C20_KindByCreation ==
    [][/\ (last'.op = "add_signal" /\ last'.res = "ok")
            => OwnFrequency(Created, values') /\ isindep(Created.key)
       /\ (last'.op = "add_combination" /\ last'.res = "ok")
            => LinkedFrequency(Created, values') /\ ~isindep(Created.key)]_vars

====
